---- MODULE Spec2Model ----
(***************************************************************************)
(* Pre-computed field of view and line of sight of package core            *)
(* (babooppa6/stones): the directional table of computeTable, its          *)
(* completion by reflection, the two table caches, the FoV flood with its  *)
(* wall correction, Trace and LoS.                                         *)
(*                                                                         *)
(* An Offset is the pair <<X, Y>>.  A Tile is named by its coordinates on  *)
(* a rectangular GridW x GridH map, so that the adjacency links agree with *)
(* the coordinates; a link that leaves the map is absent and a lookup of   *)
(* it yields the nil tile, NoTile.  A map whose links wrap around the      *)
(* rectangle has no absent link.                                           *)
(***************************************************************************)
EXTENDS Integers, Sequences, FiniteSets, TLC

GridW == 5
GridH == 5
MaxRadius == 3
MaxOpaque == 1
MaxCalls == 1
MaxSeqCalls == 2
MaxCompleteRadius == 2

VARIABLES
    lite,               \* Tile.Lite of every tile of the map
    wrap,               \* the Adjacent links wrap around the rectangle
    tableCache,         \* radius -> forward table
    reverseTableCache,  \* radius -> reverse table
    ncalls,             \* calls completed so far
    pc,                 \* "idle", "FoVFlood", "FoVDone", "TraceDone", "LoSDone", "panic"
    origin,             \* argument of the running FoV / LoS call
    radius,             \* radius of the running call
    goal,               \* argument of the running Trace / LoS call
    table,              \* FoV's local table
    fov,                \* FoV's local map, as the flood leaves it
    stack,              \* FoV's work stack
    result,             \* value returned by the call
    pushCount,          \* history: offset -> times FoV appended it to the stack
    popCount,           \* history: offset -> times FoV popped it from the stack
    ctTable,            \* completeTable: the table being completed
    ctLoop,             \* completeTable: 0 not started, 1 first loop, 2 second loop, 3 returned
    ctTodo,             \* completeTable: keys the running outer range will still produce
    ctKey,              \* completeTable: the key of the running outer iteration
    ctPosTodo,          \* completeTable: positions the running inner range will still produce
    ctSeen              \* completeTable: keys the running outer range has produced

vars == <<lite, wrap, tableCache, reverseTableCache, ncalls, pc, origin, radius, goal,
          table, fov, stack, result, pushCount, popCount,
          ctTable, ctLoop, ctTodo, ctKey, ctPosTodo, ctSeen>>

progVars == <<lite, wrap, tableCache, reverseTableCache, ncalls, pc, origin, radius, goal,
              table, fov, stack, result, pushCount, popCount>>

ctVars == <<ctTable, ctLoop, ctTodo, ctKey, ctPosTodo, ctSeen>>

None == <<>>
NoTile == <<"nil">>
EmptyMap == [x \in {} |-> 0]

----------------------------------------------------------------------------
(* tutil.go: integer helpers and Offset arithmetic                         *)

Abs(x) == IF x < 0 THEN -x ELSE x

Max(x, y) == IF y > x THEN y ELSE x

Sub(o, a) == <<o[1] - a[1], o[2] - a[2]>>

Add(o, a) == <<o[1] + a[1], o[2] + a[2]>>

Scale(o, s) == <<o[1] * s, o[2] * s>>

Chebyshev(o) == Max(Abs(o[1]), Abs(o[2]))

----------------------------------------------------------------------------
(* The map: tiles, their Offset field and their Adjacent links             *)

Tiles == (0 .. GridW - 1) \X (0 .. GridH - 1)

Directions == {d \in (-1 .. 1) \X (-1 .. 1) : d # <<0, 0>>}

\* tile.Adjacent[d]: a Go map lookup, nil when the key is missing
Adjacent(tile, d) ==
    IF d \notin Directions THEN NoTile
    ELSE IF wrap THEN <<(tile[1] + d[1]) % GridW, (tile[2] + d[2]) % GridH>>
    ELSE IF Add(tile, d) \in Tiles THEN Add(tile, d)
    ELSE NoTile

Border == {t \in Tiles : t[1] \in {0, GridW - 1} \/ t[2] \in {0, GridH - 1}}

\* The transparency assignments enumerated: an open or a walled border,
\* and at most MaxOpaque further opaque tiles anywhere.
RECURSIVE SubsetsUpTo(_, _)
SubsetsUpTo(S, n) ==
    IF n = 0 THEN {{}}
    ELSE LET smaller == SubsetsUpTo(S, n - 1)
         IN  smaller \cup {s \cup {t} : s \in smaller, t \in S}

OpaqueSets == {b \cup s : b \in {{}, Border}, s \in SubsetsUpTo(Tiles, MaxOpaque)}

Maps == {[t \in Tiles |-> t \notin o] : o \in OpaqueSets}

----------------------------------------------------------------------------
(* The directional table                                                   *)

addEntry(tbl, src, dst) ==
    IF src \in DOMAIN tbl
    THEN [tbl EXCEPT ![src] = @ \cup {dst}]
    ELSE tbl @@ (src :> {dst})

\* octantRow with nextY advanced by one, not two, after a break row
RECURSIVE octantRowOneStep(_, _, _, _, _)
octantRowOneStep(tbl, x, y, nextY, currBreak) ==
    IF y > x THEN tbl
    ELSE IF y = currBreak
    THEN octantRowOneStep(addEntry(addEntry(tbl, <<x, y>>, <<x + 1, nextY>>),
                                   <<x, y>>, <<x + 1, nextY + 1>>),
                          x, y + 1, nextY + 1, currBreak)
    ELSE octantRowOneStep(addEntry(tbl, <<x, y>>, <<x + 1, nextY>>),
                          x, y + 1, nextY + 1, currBreak)

\* the loop over y of computeTable, from y up to x
RECURSIVE octantRow(_, _, _, _, _)
octantRow(tbl, x, y, nextY, currBreak) ==
    IF y > x THEN tbl
    ELSE IF y = currBreak
    THEN octantRow(addEntry(addEntry(tbl, <<x, y>>, <<x + 1, nextY>>),
                            <<x, y>>, <<x + 1, nextY + 1>>),
                   x, y + 1, nextY + 2, currBreak)
    ELSE octantRow(addEntry(tbl, <<x, y>>, <<x + 1, nextY>>),
                   x, y + 1, nextY + 1, currBreak)

\* octantRings with the loop over x ending one ring early
RECURSIVE octantRingsShort(_, _, _, _, _)
octantRingsShort(tbl, x, rad, currBreak, breakCount) ==
    IF x >= rad - 1 THEN tbl
    ELSE LET t == octantRow(tbl, x, 0, 0, currBreak)
         IN  IF breakCount - 1 < 0
             THEN octantRingsShort(t, x + 1, rad, currBreak + 1, currBreak + 1)
             ELSE octantRingsShort(t, x + 1, rad, currBreak, breakCount - 1)

\* the loop over x of computeTable, from x up to rad - 1
RECURSIVE octantRings(_, _, _, _, _)
octantRings(tbl, x, rad, currBreak, breakCount) ==
    IF x >= rad THEN tbl
    ELSE LET t == octantRow(tbl, x, 0, 0, currBreak)
         IN  IF breakCount - 1 < 0
             THEN octantRings(t, x + 1, rad, currBreak + 1, currBreak + 1)
             ELSE octantRings(t, x + 1, rad, currBreak, breakCount - 1)

\* computeTable up to the call of completeTable: a single octant
octant(rad) ==
    octantRings(addEntry(addEntry(EmptyMap, <<0, 0>>, <<1, 0>>), <<0, 0>>, <<1, 1>>),
                1, rad, 0, 0)

Edges(tbl) == UNION {{<<k, p>> : p \in tbl[k]} : k \in DOMAIN tbl}

FromEdges(es) == [k \in {e[1] : e \in es} |-> {e[2] : e \in {f \in es : f[1] = k}}]

Swap(o) == <<o[2], o[1]>>
NegX(o) == <<-o[1], o[2]>>
NegY(o) == <<o[1], -o[2]>>
\* negXY with the Y coordinate left as it is
NegXYKeepY(o) == <<-o[1], o[2]>>
NegXY(o) == <<-o[1], -o[2]>>

\* completeTable, every key and position present when a loop starts being
\* produced once by it
completeTable(tbl) ==
    LET e0 == Edges(tbl)
        e1 == e0 \cup {<<Swap(e[1]), Swap(e[2])>> : e \in e0}
        e2 == e1 \cup {<<NegX(e[1]), NegX(e[2])>> : e \in e1}
                 \cup {<<NegY(e[1]), NegY(e[2])>> : e \in e1}
                 \cup {<<NegXY(e[1]), NegXY(e[2])>> : e \in e1}
    IN  FromEdges(e2)

\* the largest Chebyshev distance between two tiles of the map
MaxDistance == Max(GridW, GridH) - 1

\* computeTable is a function of the radius alone; its values for the radii
\* a call can ask for are tabulated once
tables == [rad \in 0 .. Max(MaxRadius, MaxDistance) + 1 |-> completeTable(octant(rad))]

computeTable(rad) == tables[rad]

----------------------------------------------------------------------------
(* The reverse table                                                       *)

Sources(forward, dst) == {pos \in DOMAIN forward : dst \in forward[pos]}

Destinations(forward) == UNION {forward[pos] : pos \in DOMAIN forward}

\* The tables the loop "reverse[edge] = pos" can leave.  The two range
\* loops run in an unspecified order, so an edge reached from several
\* positions keeps any one of them: reverseOver(forward, dsts) is every
\* choice of a position for the edges dsts.
RECURSIVE reverseOver(_, _)
reverseOver(forward, dsts) ==
    IF dsts = {} THEN {EmptyMap}
    ELSE LET edge == CHOOSE e \in dsts : TRUE
         IN  {rev @@ (edge :> pos) : rev \in reverseOver(forward, dsts \ {edge}),
                                     pos \in Sources(forward, edge)}

computeReverseTable(forward) ==
    LET shared == {edge \in Destinations(forward) :
                      Cardinality(Sources(forward, edge)) > 1}
    IN  {[edge \in Destinations(forward) |->
            IF edge \in shared THEN pick[edge]
            ELSE CHOOSE pos \in Sources(forward, edge) : TRUE] :
         pick \in reverseOver(forward, shared)}

\* table[o] of a map[Offset]Offset: the zero Offset when o is no key
Lookup(rev, o) == IF o \in DOMAIN rev THEN rev[o] ELSE <<0, 0>>

\* cacheTable storing the new table in a fresh map
cacheTableFresh(cache, rad) ==
    IF rad \in DOMAIN cache THEN cache ELSE (rad :> computeTable(rad))

\* the cache after "table, cached := tableCache[radius]; if !cached {...}"
cacheTable(cache, rad) ==
    IF rad \in DOMAIN cache THEN cache ELSE cache @@ (rad :> computeTable(rad))

\* the reverse caches getReverseTable can leave for radius rad, given the
\* forward cache as computeReverseTable left it
cacheReverse(rcache, cache, rad) ==
    IF rad \in DOMAIN rcache THEN {rcache}
    ELSE {rcache @@ (rad :> rev) : rev \in computeReverseTable(cache[rad])}

----------------------------------------------------------------------------
(* Trace and LoS                                                           *)

\* Trace without the reversal of the path
ReverseNot(path) == path

Reverse(path) == [i \in 1 .. Len(path) |-> path[Len(path) + 1 - i]]

\* the loop "for goal.X != 0 || goal.Y != 0" of Trace
RECURSIVE traceBack(_, _)
traceBack(rev, g) ==
    IF g[1] # 0 \/ g[2] # 0 THEN <<g>> \o traceBack(rev, Lookup(rev, g)) ELSE <<>>

Trace(rev, g) == Reverse(traceBack(rev, g))

\* LoS testing the tile it steps to, not the one it leaves
RECURSIVE LoSAfterStep(_, _, _, _, _)
LoSAfterStep(lt, rev, org, g, curr) ==
    IF g = org THEN "true"
    ELSE IF g = NoTile THEN "panic"
    ELSE LET next == Lookup(rev, curr)
             n == Adjacent(g, Sub(next, curr))
         IN  IF n = NoTile THEN "panic"
             ELSE IF ~lt[n] THEN "false"
             ELSE LoSAfterStep(lt, rev, org, n, next)

\* the loop "for goal != origin" of LoS: "true", "false", or "panic" when
\* the nil tile is dereferenced
RECURSIVE LoS(_, _, _, _, _)
LoS(lt, rev, org, g, curr) ==
    IF g = org THEN "true"
    ELSE IF g = NoTile THEN "panic"
    ELSE IF ~lt[g] THEN "false"
    ELSE LET next == Lookup(rev, curr)
         IN  LoS(lt, rev, org, Adjacent(g, Sub(next, curr)), next)

----------------------------------------------------------------------------
(* wallfix                                                                 *)

Put(m, k, v) == [o \in DOMAIN m \cup {k} |-> IF o = k THEN v ELSE m[o]]

\* One of the four loops of wallfix: n runs from 1 to rad along the axis
\* step; the previous axis position lends its links a and b.  w.fov is
\* the map so far, w.ok turns FALSE when the nil tile is dereferenced.
RECURSIVE wallfixRay(_, _, _, _, _, _)
wallfixRay(w, n, rad, step, a, b) ==
    IF ~w.ok \/ n > rad \/ Scale(step, n) \notin DOMAIN w.fov THEN w
    ELSE LET prev == Scale(step, n - 1)
             pos == IF prev \in DOMAIN w.fov THEN w.fov[prev] ELSE NoTile
         IN  IF pos = NoTile THEN [ok |-> FALSE, fov |-> w.fov]
             ELSE wallfixRay(
                    [ok |-> TRUE,
                     fov |-> Put(Put(w.fov, Add(prev, a), Adjacent(pos, a)),
                                 Add(prev, b), Adjacent(pos, b))],
                    n + 1, rad, step, a, b)

wallfix(f, rad) ==
    LET w1 == wallfixRay([ok |-> TRUE, fov |-> f], 1, rad, <<1, 0>>, <<1, 1>>, <<1, -1>>)
        w2 == wallfixRay(w1, 1, rad, <<-1, 0>>, <<-1, 1>>, <<-1, -1>>)
        w3 == wallfixRay(w2, 1, rad, <<0, 1>>, <<1, 1>>, <<-1, 1>>)
    IN  wallfixRay(w3, 1, rad, <<0, -1>>, <<1, -1>>, <<-1, -1>>)

----------------------------------------------------------------------------
(* The program: calls of FoV, Trace and LoS against the two caches         *)

Radii == 1 .. MaxRadius

Goals == (-MaxRadius .. MaxRadius) \X (-MaxRadius .. MaxRadius)

ctIdle ==
    /\ ctTable = EmptyMap
    /\ ctLoop = 0
    /\ ctTodo = {}
    /\ ctKey = None
    /\ ctPosTodo = {}
    /\ ctSeen = {}

noCall ==
    /\ pc = "idle"
    /\ origin = None
    /\ radius = None
    /\ goal = None
    /\ table = EmptyMap
    /\ fov = EmptyMap
    /\ stack = <<>>
    /\ result = None
    /\ pushCount = EmptyMap
    /\ popCount = EmptyMap

Init ==
    /\ lite \in Maps
    /\ wrap = FALSE
    /\ tableCache = EmptyMap
    /\ reverseTableCache = EmptyMap
    /\ ncalls = 0
    /\ noCall
    /\ ctIdle

\* FoV up to its flood loop: the table is fetched or built and cached, the
\* map holds the origin and the stack the origin's offset.  The stack is kept
\* as its batches: the offsets one pass of "for adj := range table[off]"
\* appended, whose order the range leaves open, with the offset the pass
\* served.  Taking any offset of the last batch is popping the stack under
\* one of those orders.
FoVCall(org, rad, limit) ==
    /\ pc = "idle"
    /\ ncalls < limit
    /\ tableCache' = cacheTable(tableCache, rad)
    /\ table' = tableCache'[rad]
    /\ origin' = org
    /\ radius' = rad
    /\ fov' = (<<0, 0>> :> org)
    /\ stack' = <<[from |-> None, offs |-> {<<0, 0>>}]>>
    /\ pushCount' = (<<0, 0>> :> 1)
    /\ popCount' = EmptyMap
    /\ pc' = "FoVFlood"
    /\ UNCHANGED <<lite, wrap, reverseTableCache, ncalls, goal, result>>
    /\ UNCHANGED ctVars

Top == stack[Len(stack)]

\* popped with the truncation "stack = stack[:len(stack)-1]" left out
poppedKept(off) == stack

\* stack[:len(stack)-1] after off was taken from the last batch
popped(off) ==
    IF Top.offs = {off}
    THEN SubSeq(stack, 1, Len(stack) - 1)
    ELSE [stack EXCEPT ![Len(stack)].offs = @ \ {off}]

\* the history h with one more occurrence of every offset of offs
Count(h, offs) ==
    [o \in DOMAIN h \cup offs |->
        (IF o \in DOMAIN h THEN h[o] ELSE 0) + (IF o \in offs THEN 1 ELSE 0)]

\* table[off] of the nested map: no edges when off is no key
tableEdges(off) == IF off \in DOMAIN table THEN table[off] ELSE {}

\* pushes with the test of neighbor.Lite inverted
pushesOpaque(off, neighbor) == {adj \in DOMAIN neighbor : ~lite[neighbor[adj]]}

\* pushes without the test of neighbor.Lite
pushesAll(off, neighbor) == DOMAIN neighbor

\* the offsets the pass over table[off] appends to the stack
pushes(off, neighbor) == {adj \in DOMAIN neighbor : lite[neighbor[adj]]}

\* One iteration of the flood loop: pop, then range over table[off].  A nil
\* neighbor is stored and then dereferenced by neighbor.Lite, which panics.
FoVPop ==
    /\ pc = "FoVFlood"
    /\ stack # <<>>
    /\ \E off \in Top.offs :
         LET tile == fov[off]
             neighbor == [adj \in tableEdges(off) |-> Adjacent(tile, Sub(adj, off))]
         IN  IF \E adj \in DOMAIN neighbor : neighbor[adj] = NoTile
             THEN /\ pc' = "panic"
                  /\ UNCHANGED <<fov, stack, pushCount, popCount>>
             ELSE /\ fov' = [o \in DOMAIN fov \cup DOMAIN neighbor |->
                               IF o \in DOMAIN neighbor THEN neighbor[o] ELSE fov[o]]
                  /\ stack' = IF pushes(off, neighbor) = {} THEN popped(off)
                              ELSE Append(popped(off),
                                          [from |-> off, offs |-> pushes(off, neighbor)])
                  /\ popCount' = Count(popCount, {off})
                  /\ pushCount' = Count(pushCount, pushes(off, neighbor))
                  /\ pc' = "FoVFlood"
    /\ UNCHANGED <<lite, wrap, tableCache, reverseTableCache, ncalls, origin, radius, goal,
                   table, result>>
    /\ UNCHANGED ctVars

\* The flood loop has ended: wallfix, then return.  fov keeps the map as the
\* flood left it, result is the map returned.
FoVReturn ==
    /\ pc = "FoVFlood"
    /\ stack = <<>>
    /\ LET w == wallfix(fov, radius)
       IN  IF w.ok THEN pc' = "FoVDone" /\ result' = w.fov
           ELSE pc' = "panic" /\ result' = result
    /\ UNCHANGED <<lite, wrap, tableCache, reverseTableCache, ncalls, origin, radius, goal,
                   table, fov, stack, pushCount, popCount>>
    /\ UNCHANGED ctVars

\* Trace(goal): getReverseTable, the walk back and the reversal
TraceCall(g, limit) ==
    /\ pc = "idle"
    /\ ncalls < limit
    /\ tableCache' = IF Chebyshev(g) \in DOMAIN reverseTableCache THEN tableCache
                     ELSE cacheTable(tableCache, Chebyshev(g))
    /\ reverseTableCache' \in cacheReverse(reverseTableCache, tableCache', Chebyshev(g))
    /\ goal' = g
    /\ radius' = Chebyshev(g)
    /\ result' = Trace(reverseTableCache'[Chebyshev(g)], g)
    /\ pc' = "TraceDone"
    /\ UNCHANGED <<lite, wrap, ncalls, origin, table, fov, stack, pushCount, popCount>>
    /\ UNCHANGED ctVars

\* LoS(origin, goal): getReverseTable, then the walk from goal to origin
LoSCall(org, g, limit) ==
    /\ pc = "idle"
    /\ ncalls < limit
    /\ LET curr == Sub(g, org)
       IN  /\ tableCache' = IF Chebyshev(curr) \in DOMAIN reverseTableCache THEN tableCache
                            ELSE cacheTable(tableCache, Chebyshev(curr))
           /\ reverseTableCache' \in
                  cacheReverse(reverseTableCache, tableCache', Chebyshev(curr))
           /\ radius' = Chebyshev(curr)
           /\ LET r == LoS(lite, reverseTableCache'[Chebyshev(curr)], org, g, curr)
              IN  IF r = "panic" THEN pc' = "panic" /\ result' = result
                  ELSE pc' = "LoSDone" /\ result' = (r = "true")
    /\ origin' = org
    /\ goal' = g
    /\ UNCHANGED <<lite, wrap, ncalls, table, fov, stack, pushCount, popCount>>
    /\ UNCHANGED ctVars

\* the caller takes the result; the call's locals are gone
Return ==
    /\ pc \in {"FoVDone", "TraceDone", "LoSDone"}
    /\ ncalls' = ncalls + 1
    /\ pc' = "idle"
    /\ origin' = None
    /\ radius' = None
    /\ goal' = None
    /\ table' = EmptyMap
    /\ fov' = EmptyMap
    /\ stack' = <<>>
    /\ result' = None
    /\ pushCount' = EmptyMap
    /\ popCount' = EmptyMap
    /\ UNCHANGED <<lite, wrap, tableCache, reverseTableCache>>
    /\ UNCHANGED ctVars

Next ==
    \/ \E org \in Tiles, rad \in Radii : FoVCall(org, rad, MaxCalls)
    \/ FoVPop
    \/ FoVReturn
    \/ \E g \in Goals : TraceCall(g, MaxCalls)
    \/ \E org \in Tiles, g \in Tiles : LoSCall(org, g, MaxCalls)
    \/ Return

Spec == Init /\ [][Next]_vars

----------------------------------------------------------------------------
(* FoV on maps without absent links: the links wrap around the rectangle,  *)
(* so every origin sees the same map up to translation and one origin      *)
(* stands for all.  The opaque tiles are drawn from one octant around the  *)
(* origin.  The flood loop runs to its end: "for len(stack) > 0" keeps     *)
(* iterating while the stack is non-empty.                                 *)

MaxFloodOpaque == 1

FloodOrigin == <<GridW \div 2, GridH \div 2>>

FloodSites == {Add(FloodOrigin, <<x, y>>) : x \in 0 .. 2, y \in 0 .. 2} \cap
              {t \in Tiles : t[2] <= t[1]}

FloodMaps == {[t \in Tiles |-> t \notin o] : o \in SubsetsUpTo(FloodSites, MaxFloodOpaque)}

InitFlood ==
    /\ lite \in FloodMaps
    /\ wrap = TRUE
    /\ tableCache = EmptyMap
    /\ reverseTableCache = EmptyMap
    /\ ncalls = 0
    /\ noCall
    /\ ctIdle

NextFlood ==
    \/ \E rad \in Radii : FoVCall(FloodOrigin, rad, MaxCalls)
    \/ FoVPop
    \/ FoVReturn
    \/ Return

SpecFlood == InitFlood /\ [][NextFlood]_vars /\ WF_vars(FoVPop)

----------------------------------------------------------------------------
(* Sequences of calls on one map: a corridor between walls                 *)

Corridor == [t \in Tiles |-> t \notin Border /\ t[2] = GridH \div 2]

InitSeq ==
    /\ lite = Corridor
    /\ wrap = FALSE
    /\ tableCache = EmptyMap
    /\ reverseTableCache = EmptyMap
    /\ ncalls = 0
    /\ noCall
    /\ ctIdle

NextSeq ==
    \/ \E org \in Tiles, rad \in Radii : FoVCall(org, rad, MaxSeqCalls)
    \/ FoVPop
    \/ FoVReturn
    \/ \E g \in Goals : TraceCall(g, MaxSeqCalls)
    \/ \E org \in Tiles, g \in Tiles : LoSCall(org, g, MaxSeqCalls)
    \/ Return

SpecSeq == InitSeq /\ [][NextSeq]_vars

----------------------------------------------------------------------------
(* completeTable, one iteration of its range loops at a time.  A Go range  *)
(* over a map produces every entry present when it starts once, in an      *)
(* unspecified order; an entry inserted while it runs is produced or       *)
(* skipped.  ctTodo and ctPosTodo hold the entries still to be produced:   *)
(* an inserted entry joins them or not.                                    *)

InitComplete ==
    /\ lite = [t \in Tiles |-> TRUE]
    /\ wrap = FALSE
    /\ tableCache = EmptyMap
    /\ reverseTableCache = EmptyMap
    /\ ncalls = 0
    /\ noCall
    /\ ctIdle

\* computeTable(rad) calls completeTable on the octant it built
CtCall(rad) ==
    /\ ctLoop = 0
    /\ radius' = rad
    /\ ctTable' = octant(rad)
    /\ ctLoop' = 1
    /\ ctTodo' = DOMAIN octant(rad)
    /\ ctKey' = None
    /\ ctPosTodo' = {}
    /\ ctSeen' = {}
    /\ UNCHANGED <<lite, wrap, tableCache, reverseTableCache, ncalls, pc, origin, goal,
                   table, fov, stack, result, pushCount, popCount>>

\* "for key := range table": the next key, and the start of the range over
\* table[key]
CtKey ==
    /\ ctLoop \in {1, 2}
    /\ ctKey = None
    /\ \E key \in ctTodo :
         /\ ctKey' = key
         /\ ctTodo' = ctTodo \ {key}
         /\ ctSeen' = ctSeen \cup {key}
         /\ ctPosTodo' = ctTable[key]
    /\ UNCHANGED <<ctTable, ctLoop>>
    /\ UNCHANGED progVars

\* the body of "for pos := range table[key]" in the loop ctLoop
ctBody(tbl, key, pos) ==
    IF ctLoop = 1
    THEN addEntry(tbl, Swap(key), Swap(pos))
    ELSE addEntry(addEntry(addEntry(tbl, NegX(key), NegX(pos)),
                           NegY(key), NegY(pos)),
                  NegXY(key), NegXY(pos))

\* one iteration of "for pos := range table[key]"
CtPos ==
    /\ ctLoop \in {1, 2}
    /\ ctKey # None
    /\ \E pos \in ctPosTodo :
         LET t == ctBody(ctTable, ctKey, pos)
         IN  /\ ctTable' = t
             /\ \E ks \in SUBSET (DOMAIN t \ DOMAIN ctTable) :
                    ctTodo' = ctTodo \cup ks
             /\ \E ps \in SUBSET (t[ctKey] \ ctTable[ctKey]) :
                    ctPosTodo' = (ctPosTodo \ {pos}) \cup ps
    /\ UNCHANGED <<ctLoop, ctKey, ctSeen>>
    /\ UNCHANGED progVars

\* the range over table[key] has ended
CtEndKey ==
    /\ ctLoop \in {1, 2}
    /\ ctKey # None
    /\ ctPosTodo = {}
    /\ ctKey' = None
    /\ UNCHANGED <<ctTable, ctLoop, ctTodo, ctPosTodo, ctSeen>>
    /\ UNCHANGED progVars

\* the range over table has ended: the second loop starts, or completeTable
\* returns
CtEndLoop ==
    /\ ctLoop \in {1, 2}
    /\ ctKey = None
    /\ ctTodo = {}
    /\ ctLoop' = ctLoop + 1
    /\ ctTodo' = IF ctLoop = 1 THEN DOMAIN ctTable ELSE {}
    /\ ctSeen' = IF ctLoop = 1 THEN {} ELSE ctSeen
    /\ UNCHANGED <<ctTable, ctKey, ctPosTodo>>
    /\ UNCHANGED progVars

NextComplete ==
    \/ \E rad \in 1 .. MaxCompleteRadius : CtCall(rad)
    \/ CtKey
    \/ CtPos
    \/ CtEndKey
    \/ CtEndLoop

SpecComplete == InitComplete /\ [][NextComplete]_vars

----------------------------------------------------------------------------
(* Notions the properties are stated with                                  *)

callIsFoV == origin # None /\ goal = None
callIsTrace == origin = None /\ goal # None
callIsLoS == origin # None /\ goal # None

\* the tables of every radius a call can ask for, as the code builds them
TableOf == [r \in 0 .. Max(MaxRadius, MaxDistance) |-> computeTable(r)]

ReverseOf == [r \in 0 .. Max(MaxRadius, MaxDistance) |-> computeReverseTable(TableOf[r])]

\* what LoS(a, b) returns on the current map
LoSOf(a, b) ==
    LET rev == CHOOSE t \in ReverseOf[Chebyshev(Sub(b, a))] : TRUE
    IN  LoS(lite, rev, a, b, Sub(b, a))

\* the offsets of Trace(g)
TraceOf(g) ==
    LET rev == CHOOSE t \in ReverseOf[Chebyshev(g)] : TRUE
    IN  Trace(rev, g)

Range(f) == {f[i] : i \in DOMAIN f}

----------------------------------------------------------------------------
(* C1: FoV(origin, radius) with radius >= 1 returns normally on a map      *)
(* where an expanded tile lacks a neighbour the table directs it to: no     *)
(* call of FoV ends in a panic.                                             *)
C1_FoVReturnsNormally == ~(callIsFoV /\ pc = "panic")

(* C2: once FoV(a, r) has ended, every tile b with chebyshev(b - a) <= r    *)
(* and LoS(a, b) true is the value of key b - a of the map FoV returned.    *)
C2_LoSImpliesFoV ==
    (callIsFoV /\ pc \in {"FoVDone", "panic"}) =>
        \A b \in Tiles :
            (Chebyshev(Sub(b, origin)) <= radius /\ LoSOf(origin, b) = "true") =>
                /\ pc = "FoVDone"
                /\ Sub(b, origin) \in DOMAIN result
                /\ result[Sub(b, origin)] = b

(* C2, on the calls of FoV that return: the same, stated of them alone.     *)
LoSImpliesFoVWhenReturned ==
    (callIsFoV /\ pc = "FoVDone") =>
        \A b \in Tiles :
            (Chebyshev(Sub(b, origin)) <= radius /\ LoSOf(origin, b) = "true") =>
                /\ Sub(b, origin) \in DOMAIN result
                /\ result[Sub(b, origin)] = b

(* C3: in the map FoV returns, every offset the flood recorded is present,   *)
(* every offset the flood recorded lies behind transparent tiles only (the   *)
(* offsets strictly between the origin and it on the table's path), so that  *)
(* an offset beyond an opaque tile is present only if wallfix wrote it; and  *)
(* when the tile k >= 1 steps from the origin along a cardinal axis is       *)
(* opaque, no offset further along that axis is a key.                       *)
Axes == {<<1, 0>>, <<-1, 0>>, <<0, 1>>, <<0, -1>>}

\* the offsets strictly between the origin and d on the path of the table
RECURSIVE Between(_, _)
Between(tbl, d) ==
    IF d = <<0, 0>> \/ Sources(tbl, d) = {} THEN {}
    ELSE LET p == CHOOSE q \in Sources(tbl, d) : TRUE
         IN  IF p = <<0, 0>> THEN {} ELSE {p} \cup Between(tbl, p)

C3_OpaqueBlocks ==
    (callIsFoV /\ pc = "FoVDone") =>
        /\ \A d \in DOMAIN fov : d \in DOMAIN result /\ result[d] = fov[d]
        /\ \A d \in DOMAIN fov : \A p \in Between(table, d) :
              p \in DOMAIN fov /\ fov[p] # NoTile /\ lite[fov[p]]
        /\ \A step \in Axes : \A k \in 1 .. radius :
              (Add(origin, Scale(step, k)) \in Tiles /\ ~lite[Add(origin, Scale(step, k))]) =>
                  \A j \in (k + 1) .. (radius + 1) : Scale(step, j) \notin DOMAIN result

\* an opaque tile on an axis with a tile of the map beyond it inside the
\* radius, and a key that only wallfix wrote
C3_Witness ==
    /\ callIsFoV /\ pc = "FoVDone"
    /\ \E step \in Axes : \E k \in 1 .. (radius - 1) :
          /\ Scale(step, k) \in DOMAIN result
          /\ ~lite[Add(origin, Scale(step, k))]
          /\ Add(origin, Scale(step, k + 1)) \in Tiles
    /\ DOMAIN result # DOMAIN fov

(* C4: on a fully open map that extends r tiles from the origin in every     *)
(* direction FoV(origin, r) returns, its keys are exactly the (2r+1)^2       *)
(* offsets o with chebyshev(o) <= r, and key o maps to the tile at origin    *)
(* + o; on any map the table FoV works with covers exactly those offsets.    *)
Square(r) == (-r .. r) \X (-r .. r)

OpenAround(org, r) ==
    /\ \A t \in Tiles : lite[t]
    /\ \A o \in Square(r) : Add(org, o) \in Tiles

C4_OpenGridExact ==
    /\ (callIsFoV /\ pc \in {"FoVDone", "panic"} /\ OpenAround(origin, radius)) =>
          /\ pc = "FoVDone"
          /\ DOMAIN result = Square(radius)
          /\ Cardinality(DOMAIN result) = (2 * radius + 1) * (2 * radius + 1)
          /\ \A o \in DOMAIN result : result[o] = Add(origin, o)
    /\ callIsFoV => DOMAIN table \cup Destinations(table) = Square(radius)

C4_Witness ==
    /\ callIsFoV /\ pc = "FoVDone" /\ OpenAround(origin, radius)
    /\ radius = 2
    /\ Cardinality(DOMAIN result) = 25

(* C5: LoS(origin, goal) ends without a panic and returns true exactly when  *)
(* every tile at an offset of Trace(goal - origin) from the origin is        *)
(* transparent; the origin's own flag plays no part, LoS(origin, origin) is  *)
(* true.                                                                     *)
C5_LoSIsTraceClear ==
    /\ ~(callIsLoS /\ pc = "panic")
    /\ (callIsLoS /\ pc = "LoSDone") =>
          /\ result = (\A o \in Range(TraceOf(Sub(goal, origin))) : lite[Add(origin, o)])
          /\ (goal = origin => result = TRUE)

C5_Witness ==
    /\ callIsLoS /\ pc = "LoSDone"
    /\ result = TRUE
    /\ ~lite[origin]
    /\ Chebyshev(Sub(goal, origin)) >= 3

(* C6: Trace(goal) has chebyshev(goal) offsets, ends in goal, never holds    *)
(* (0,0), and the magnitude of its dominant-axis coordinate never decreases  *)
(* along it; Trace((0,0)) is empty.                                          *)
Dominant(g) == IF Abs(g[1]) >= Abs(g[2]) THEN 1 ELSE 2

C6_TraceShape ==
    (callIsTrace /\ pc = "TraceDone") =>
        /\ Len(result) = Chebyshev(goal)
        /\ (goal # <<0, 0>> => result[Len(result)] = goal)
        /\ (goal = <<0, 0>> => result = <<>>)
        /\ \A i \in 1 .. Len(result) : result[i] # <<0, 0>>
        /\ \A i \in 1 .. Len(result) : \A j \in i .. Len(result) :
              Abs(result[i][Dominant(goal)]) <= Abs(result[j][Dominant(goal)])

C6_Witness ==
    /\ callIsTrace /\ pc = "TraceDone"
    /\ goal = <<3, 1>>
    /\ Len(result) = 3
    /\ result[3] = <<3, 1>>

(* C10 as stated: whenever offsets were pushed while the popped offset o was *)
(* processed, the tile recorded at o is transparent, the origin included.    *)
C10_PushOnlyFromTransparent ==
    (callIsFoV /\ pc = "FoVFlood") =>
        \A i \in 1 .. Len(stack) :
            stack[i].from # None => lite[fov[stack[i].from]]

(* C10, amended: whenever offsets were pushed while the popped offset o was  *)
(* processed, o is the origin's offset (0,0) or the tile recorded at o is    *)
(* transparent.                                                              *)
C10_PushFromOriginOrTransparent ==
    (callIsFoV /\ pc = "FoVFlood") =>
        \A i \in 1 .. Len(stack) :
            (stack[i].from # None /\ stack[i].from # <<0, 0>>) =>
                (fov[stack[i].from] # NoTile /\ lite[fov[stack[i].from]])

\* offsets pushed from an offset other than the origin's, next to an opaque
\* tile the flood recorded
C10_Witness ==
    /\ callIsFoV /\ pc = "FoVFlood"
    /\ \E i \in 1 .. Len(stack) : stack[i].from \notin {None, <<0, 0>>}
    /\ \E o \in DOMAIN fov : ~lite[fov[o]]

(* C7: for every radius r >= 1 cached, no destination of the forward table   *)
(* has two sources (it has as many edges as destinations), and in the        *)
(* reverse table built from it (0,0) is no key and the predecessor chain of  *)
(* every key reaches (0,0) in at most r steps (hence without repeating an    *)
(* offset).                                                                  *)

\* steps of the predecessor chain from o to (0,0), given fuel steps; more
\* than the fuel given when the chain leaves the keys or is not at (0,0)
\* after fuel steps
RECURSIVE ChainSteps(_, _, _)
ChainSteps(rev, o, fuel) ==
    IF o = <<0, 0>> THEN 0
    ELSE IF fuel = 0 \/ o \notin DOMAIN rev THEN fuel + 1
    ELSE 1 + ChainSteps(rev, rev[o], fuel - 1)

C7_ReverseIsTree ==
    /\ \A r \in DOMAIN tableCache : r >= 1 =>
          Cardinality(Edges(tableCache[r])) = Cardinality(Destinations(tableCache[r]))
    /\ \A r \in DOMAIN reverseTableCache : r >= 1 =>
          /\ <<0, 0>> \notin DOMAIN reverseTableCache[r]
          /\ \A o \in DOMAIN reverseTableCache[r] :
                ChainSteps(reverseTableCache[r], o, r) <= r

C7_Witness ==
    /\ pc = "TraceDone"
    /\ radius = MaxRadius
    /\ MaxRadius \in DOMAIN reverseTableCache
    /\ \E o \in DOMAIN reverseTableCache[MaxRadius] :
          ChainSteps(reverseTableCache[MaxRadius], o, MaxRadius) = MaxRadius

(* C8: when completeTable has returned, whatever the order its loops took    *)
(* and whichever inserted entries they produced, every edge of the table     *)
(* has its image under each of the eight symmetries of the plane in the      *)
(* table.                                                                    *)
Image(o, sx, sy, swap) == IF swap THEN <<sx * o[2], sy * o[1]>> ELSE <<sx * o[1], sy * o[2]>>

C8_EightfoldSymmetric ==
    ctLoop = 3 =>
        \A e \in Edges(ctTable) : \A sx \in {-1, 1}, sy \in {-1, 1}, swap \in BOOLEAN :
            /\ Image(e[1], sx, sy, swap) \in DOMAIN ctTable
            /\ Image(e[2], sx, sy, swap) \in ctTable[Image(e[1], sx, sy, swap)]

\* completeTable returned for radius 2 after its second loop produced a key
\* that was inserted while it ran
C8_Witness ==
    /\ ctLoop = 3
    /\ radius = 2
    /\ <<-1, -1>> \in ctSeen
    /\ <<-1, -1>> \in DOMAIN ctTable

(* completeTable returns the same table under every order: the one           *)
(* computeTable is taken to return in the calls of FoV, Trace and LoS.       *)
CompleteTableIsDetermined == ctLoop = 3 => ctTable = computeTable(radius)

(* C9: every forward table cached under r is what computeTable(r) builds,    *)
(* every reverse table cached under r inverts the forward table cached       *)
(* under r, and no step replaces, removes or changes a cached entry.         *)
IsInversion(rev, forward) ==
    /\ DOMAIN rev = Destinations(forward)
    /\ \A d \in DOMAIN rev : rev[d] \in DOMAIN forward /\ d \in forward[rev[d]]

CachesFaithful ==
    /\ \A r \in DOMAIN tableCache : tableCache[r] = computeTable(r)
    /\ \A r \in DOMAIN reverseTableCache :
          r \in DOMAIN tableCache /\ IsInversion(reverseTableCache[r], tableCache[r])

CachesKept ==
    /\ \A r \in DOMAIN tableCache :
          r \in DOMAIN tableCache' /\ tableCache'[r] = tableCache[r]
    /\ \A r \in DOMAIN reverseTableCache :
          r \in DOMAIN reverseTableCache' /\ reverseTableCache'[r] = reverseTableCache[r]

C9_CachesFaithfulAndKept == []CachesFaithful /\ [][CachesKept]_vars

\* a call of FoV running on the table an earlier call of Trace or LoS cached
C9_Witness ==
    /\ callIsFoV /\ pc = "FoVFlood"
    /\ ncalls >= 1
    /\ radius \in DOMAIN reverseTableCache
    /\ table = tableCache[radius]

----------------------------------------------------------------------------
(* C11: the flood on a map without absent links                            *)

RECURSIVE Total(_)
Total(h) ==
    IF DOMAIN h = {} THEN 0
    ELSE LET o == CHOOSE k \in DOMAIN h : TRUE
         IN  h[o] + Total([k \in DOMAIN h \ {o} |-> h[k]])

FloodRuns == callIsFoV /\ wrap /\ radius >= 1 /\ pc = "FoVFlood"

FloodEnded == FloodRuns /\ stack = <<>>

\* no offset appended twice, none popped twice, at most (2r+1)^2 pops in all
FloodOnce ==
    callIsFoV /\ wrap /\ radius >= 1 =>
        /\ \A o \in DOMAIN pushCount : pushCount[o] <= 1
        /\ \A o \in DOMAIN popCount : popCount[o] <= 1
        /\ Total(popCount) <= (2 * radius + 1) * (2 * radius + 1)

\* C11: in every run of FoV(origin, r) with r >= 1 on a map with no absent
\* neighbours, whatever the transparency flags, each offset is pushed onto and
\* popped from the work stack at most once, and the flood loop ends with an
\* empty stack after at most (2r+1)^2 pops.
C11_FloodOnceAndEnds == []FloodOnce /\ (FloodRuns ~> FloodEnded)

\* a flood of the largest radius has ended on a map with an opaque tile, after
\* popping offsets of the outermost ring
C11_Witness ==
    /\ FloodEnded
    /\ radius = MaxRadius
    /\ \E t \in Tiles : ~lite[t]
    /\ \E o \in DOMAIN popCount : Chebyshev(o) = radius
    /\ Total(popCount) = Total(pushCount)

====
